---- MODULE Spec2Model ----
(***************************************************************************)
(* Model of the Music API (src/app.py): a read-only HTTP layer over the    *)
(* "tracks" collection of a document store.                                *)
(*                                                                         *)
(* A string is a sequence of one-character strings.  A value held by a     *)
(* document, a parameter or a response is a tagged record:                 *)
(*   [t |-> "missing"]      the key is absent from the document            *)
(*   [t |-> "null"]         None                                           *)
(*   [t |-> "str",  s |-> <<..>>]   a string                               *)
(*   [t |-> "list", l |-> <<..>>]   a list of strings                      *)
(*   [t |-> "dict", d |-> <<..>>]   a mapping (its items, abstractly)      *)
(*   [t |-> "datetime", ymd |-> <<y, m, d>>]   a datetime                  *)
(*   [t |-> "oid",  n |-> <<..>>]   the store's ObjectId                   *)
(***************************************************************************)
EXTENDS Integers, Sequences, FiniteSets, TLC

VARIABLES store, req, resp, doc, shaped

vars == <<store, req, resp, doc, shaped>>

-----------------------------------------------------------------------------
(* Values *)

Missing == [t |-> "missing"]

None == [t |-> "null"]

Str(s) == [t |-> "str", s |-> s]

List(l) == [t |-> "list", l |-> l]

Dict(d) == [t |-> "dict", d |-> d]

Datetime(y, m, d) == [t |-> "datetime", ymd |-> <<y, m, d>>]

ObjectId(n) == [t |-> "oid", n |-> n]

\* Python truthiness of a value ("if query:", "if a", "if not doc")
Truthy(v) ==
  CASE v.t = "missing" -> FALSE
    [] v.t = "null" -> FALSE
    [] v.t = "str" -> v.s # <<>>
    [] v.t = "list" -> v.l # <<>>
    [] v.t = "dict" -> v.d # <<>>
    [] OTHER -> TRUE

-----------------------------------------------------------------------------
(* Strings *)

\* str.lower() on one character of the modelled alphabet
LowerChar(c) ==
  CASE c = "A" -> "a"
    [] c = "B" -> "b"
    [] OTHER -> c

\* str.lower()
Lower(s) == [i \in 1..Len(s) |-> LowerChar(s[i])]

\* code point of a character (Python compares strings by code point)
Ord(c) ==
  CASE c = "$" -> 36
    [] c = "-" -> 45
    [] c = "." -> 46
    [] c = "0" -> 48
    [] c = "1" -> 49
    [] c = "2" -> 50
    [] c = "3" -> 51
    [] c = "4" -> 52
    [] c = "A" -> 65
    [] c = "B" -> 66
    [] c = "T" -> 84
    [] c = "a" -> 97
    [] c = "b" -> 98
    [] c = "m" -> 109
    [] c = "p" -> 112
    [] OTHER -> 0

\* s < t for Python str: lexicographic by code point, a proper prefix is smaller
StrLess(s, t) ==
  \E i \in 1..(Len(t)) :
    /\ i <= Len(s) + 1
    /\ \A j \in 1..(i - 1) : s[j] = t[j]
    /\ \/ i = Len(s) + 1
       \/ i <= Len(s) /\ Ord(s[i]) < Ord(t[i])

\* t occurs in s as a contiguous substring
Contains(s, t) ==
  \E i \in 0..(Len(s) - Len(t)) :
    \A j \in 1..Len(t) : s[i + j] = t[j]

-----------------------------------------------------------------------------
(* The store's $regex operator (PCRE), on the alphabet of the model:       *)
(* "." matches any one character, "$" matches the empty string at the end  *)
(* of the subject, every other character matches itself.                   *)

RECURSIVE MatchHere(_, _, _, _)
MatchHere(p, pi, s, si) ==
  IF pi > Len(p) THEN TRUE
  ELSE IF p[pi] = "$" THEN si = Len(s) + 1 /\ MatchHere(p, pi + 1, s, si)
  ELSE IF p[pi] = "." THEN si <= Len(s) /\ MatchHere(p, pi + 1, s, si + 1)
  ELSE si <= Len(s) /\ s[si] = p[pi] /\ MatchHere(p, pi + 1, s, si + 1)

\* unanchored search of pattern p in subject s
RegexSearch(p, s) == \E start \in 1..(Len(s) + 1) : MatchHere(p, 1, s, start)

\* {field: {"$regex": p}} on a stored value: a string is searched, an array
\* matches when one of its elements does, anything else does not match
RegexField(v, p) ==
  CASE v.t = "str" -> RegexSearch(p, v.s)
    [] v.t = "list" -> \E i \in 1..Len(v.l) : RegexSearch(p, v.l[i])
    [] OTHER -> FALSE

-----------------------------------------------------------------------------
(* Documents: a document is a function from Fields to values; a key the    *)
(* document does not carry maps to Missing.                                *)

PublicKeys ==
  {"music_id", "title", "artist", "album", "genres", "release_date",
   "audio_features", "sources", "date_added", "notes"}

ShadowKeys == {"title_lower", "artist_lower", "album_lower", "genres_lower"}

Fields == PublicKeys \cup ShadowKeys \cup {"_id", "music_file"}

\* doc.get(k)
Get(d, k) == IF d[k].t = "missing" THEN None ELSE d[k]

\* doc.get(k, default)
GetOr(d, k, default) == IF d[k].t = "missing" THEN default ELSE d[k]

\* "if not doc": a dict is falsy exactly when it has no key
IsEmptyDoc(d) == \A k \in Fields : d[k].t = "missing"

\* datetime.isoformat()
isoformat(v) ==
  Str(v.ymd[1] \o <<"-">> \o v.ymd[2] \o <<"-">> \o v.ymd[3]
      \o <<"T", "0", "0", ":", "0", "0", ":", "0", "0">>)

\* a shaper that passes every key of the document through
PublicFieldsAll(d) ==
  [k \in PublicKeys \cup {x \in Fields : d[x].t # "missing"} |-> Get(d, k)]

\* the dict literal of serialize_track
PublicFields(d) ==
  [k \in PublicKeys |->
     CASE k = "genres" -> GetOr(d, "genres", List(<<>>))
       [] k = "audio_features" -> GetOr(d, "audio_features", Dict(<<>>))
       [] k = "sources" -> GetOr(d, "sources", Dict(<<>>))
       [] k = "date_added" ->
            IF Get(d, "date_added").t = "datetime"
            THEN isoformat(Get(d, "date_added"))
            ELSE None
       [] OTHER -> Get(d, k)]

\* serialize_track: None for a falsy document, else the public dict
serialize_track(d) ==
  IF IsEmptyDoc(d) THEN None ELSE [t |-> "obj", f |-> PublicFields(d)]

-----------------------------------------------------------------------------
(* TrackResponse, the response_model of /tracks and /tracks/{music_id}     *)

IsStr(v) == v.t = "str"

IsOptStr(v) == v.t = "str" \/ v.t = "null"

\* the shaped dict passes the model's field types
Validates(f) ==
  /\ IsOptStr(f["music_id"])
  /\ IsStr(f["title"])
  /\ IsStr(f["artist"])
  /\ IsOptStr(f["album"])
  /\ f["genres"].t = "list"
  /\ IsOptStr(f["release_date"])
  /\ f["audio_features"].t = "dict"
  /\ f["sources"].t = "dict"
  /\ IsOptStr(f["date_added"])
  /\ IsOptStr(f["notes"])

\* the body the framework emits for a validated item: the model's fields only
TrackResponse(f) == [k \in PublicKeys |-> f[k]]

-----------------------------------------------------------------------------
(* Query Builder *)

\* One entry of the filter dict: the document matches the clause when the
\* regex matches one of the named fields.  "$or" names three fields, a plain
\* key names itself.
Clause(key, fields, regex) == [key |-> key, fields |-> fields, regex |-> regex]

\* build_search_query: the filter dict, as the set of its entries
build_search_query(query, artist, genre) ==
  (IF Truthy(query)
   THEN {Clause("$or", {"title_lower", "artist_lower", "album_lower"}, Lower(query.s))}
   ELSE {})
  \cup
  (IF Truthy(artist)
   THEN {Clause("artist_lower", {"artist_lower"}, Lower(artist.s))}
   ELSE {})
  \cup
  (IF Truthy(genre)
   THEN {Clause("genres_lower", {"genres_lower"}, Lower(genre.s))}
   ELSE {})

-----------------------------------------------------------------------------
(* Track Repository: the pymongo collection, a sequence of documents in    *)
(* the store's natural order.                                              *)

\* a document satisfies a filter dict when it satisfies every entry
Matches(d, filters) ==
  \A c \in filters : \E k \in c.fields : RegexField(d[k], c.regex)

RECURSIVE SelectSeq2(_, _)
\* the documents of coll that satisfy filters, in store order
SelectSeq2(coll, filters) ==
  IF coll = <<>> THEN <<>>
  ELSE (IF Matches(Head(coll), filters) THEN <<Head(coll)>> ELSE <<>>)
       \o SelectSeq2(Tail(coll), filters)

\* collection.find(filters)
find(coll, filters) == SelectSeq2(coll, filters)

Abs(n) == IF n < 0 THEN -n ELSE n

\* cursor.limit(n): 0 means no limit; a negative n returns abs(n) documents
\* in a single batch
limit(cursor, n) ==
  IF n = 0 THEN cursor
  ELSE SubSeq(cursor, 1, IF Abs(n) < Len(cursor) THEN Abs(n) ELSE Len(cursor))

\* collection.find_one({"music_id": music_id}): the first match or None
find_one(coll, music_id) ==
  IF \E i \in 1..Len(coll) : coll[i]["music_id"] = Str(music_id)
  THEN coll[CHOOSE i \in 1..Len(coll) :
              /\ coll[i]["music_id"] = Str(music_id)
              /\ \A j \in 1..(i - 1) : coll[j]["music_id"] # Str(music_id)]
  ELSE None

\* collection.distinct(key): the distinct values of the key over the
\* collection, an array value contributing each of its elements and an
\* absent key nothing
distinct(coll, key) ==
  UNION {
    CASE coll[i][key].t = "missing" -> {}
      [] coll[i][key].t = "list" ->
           {Str(coll[i][key].l[j]) : j \in 1..Len(coll[i][key].l)}
      [] OTHER -> {coll[i][key]}
    : i \in 1..Len(coll)}

\* collection.count_documents({})
count_documents(coll) == Len(coll)

RECURSIVE sorted_desc(_)
\* sorted(S, reverse=True)
sorted_desc(S) ==
  IF S = {} THEN <<>>
  ELSE LET m == CHOOSE x \in S : \A y \in S : x = y \/ StrLess(y, x)
       IN <<m>> \o sorted_desc(S \ {m})

RECURSIVE sorted(_)
\* sorted(S) for a set of strings: ascending by StrLess
sorted(S) ==
  IF S = {} THEN <<>>
  ELSE LET m == CHOOSE x \in S : \A y \in S : x = y \/ StrLess(x, y)
       IN <<m>> \o sorted(S \ {m})

-----------------------------------------------------------------------------
(* Request handlers.  A response is                                        *)
(*   [status, tracks, names, counts, detail]:                              *)
(* the HTTP status, the shaped tracks of the body, the strings of the body, *)
(* the three counts of /stats and the message of the body.                 *)

DefaultLimit == 50

MaxLimit == 500

Resp(status, tracks, names, counts, detail) ==
  [status |-> status, tracks |-> tracks, names |-> names, counts |-> counts,
   detail |-> detail]

NoCounts == [total_tracks |-> 0, total_artists |-> 0, total_genres |-> 0]

\* the framework's answer to a handler that raised, or whose return value
\* failed the response_model
ServerError == Resp(500, <<>>, <<>>, NoCounts, "Internal Server Error")

\* find_one's None, as opposed to a document
IsNone(x) == "t" \in DOMAIN x

\* GET /
root == Resp(200, <<>>, <<>>, NoCounts, "Music API running")

\* GET /tracks: limit is validated (le=500) before the handler runs; the
\* handler's list is validated against List[TrackResponse]
list_tracks(coll, query, artist, genre, lim) ==
  IF lim > MaxLimit
  THEN Resp(422, <<>>, <<>>, NoCounts, "limit: less than or equal to 500")
  ELSE LET mongo_query == build_search_query(query, artist, genre)
           cursor == limit(find(coll, mongo_query), lim)
           out == [i \in 1..Len(cursor) |-> serialize_track(cursor[i])]
       IN IF \A i \in 1..Len(out) : out[i].t = "obj" /\ Validates(out[i].f)
          THEN Resp(200, [i \in 1..Len(out) |-> TrackResponse(out[i].f)],
                    <<>>, NoCounts, "")
          ELSE ServerError

\* GET /tracks/{music_id}
get_track_by_music_id(coll, music_id) ==
  LET d == find_one(coll, music_id)
  IN IF IsNone(d) \/ IsEmptyDoc(d)
     THEN Resp(404, <<>>, <<>>, NoCounts, "Track not found")
     ELSE LET out == serialize_track(d)
          IN IF out.t = "obj" /\ Validates(out.f)
             THEN Resp(200, <<TrackResponse(out.f)>>, <<>>, NoCounts, "")
             ELSE ServerError

\* str(v) inside an f-string
Format(v) == IF v.t = "str" THEN v.s ELSE <<"N", "o", "n", "e">>

\* GET /tracks/file/{music_id}: doc["music_file"] raises KeyError when the
\* document has no such key; the file may or may not be on disk
stream_track_file(coll, music_id, on_disk) ==
  LET d == find_one(coll, music_id)
  IN IF IsNone(d) \/ IsEmptyDoc(d)
     THEN Resp(404, <<>>, <<>>, NoCounts, "Track not found")
     ELSE IF d["music_file"].t # "str" \/ ~on_disk
     THEN ServerError
     ELSE Resp(200, <<>>,
               <<d["music_file"].s, Format(Get(d, "title")) \o <<".", "m", "p", "3">>>>,
               NoCounts, "")

\* the list GET /artists returns
artists_list(coll) ==
  LET artists == distinct(coll, "artist")
  IN sorted({a.s : a \in {x \in artists : Truthy(x)}})

\* the list GET /genres returns
genres_list(coll) ==
  LET genres == distinct(coll, "genres")
      flat == UNION {IF g.t = "list"
                     THEN {Str(g.l[j]) : j \in 1..Len(g.l)}
                     ELSE {g} : g \in genres}
  IN sorted({g.s : g \in flat})

\* GET /artists
list_artists(coll) == Resp(200, <<>>, artists_list(coll), NoCounts, "")

\* GET /genres
list_genres(coll) == Resp(200, <<>>, genres_list(coll), NoCounts, "")

\* GET /stats
stats(coll) ==
  Resp(200, <<>>, <<>>,
       [total_tracks |-> count_documents(coll),
        total_artists |-> Cardinality(distinct(coll, "artist")),
        total_genres |-> Cardinality(distinct(coll, "genres"))],
       "")

-----------------------------------------------------------------------------
(* Stored tracks.  The ingestion that writes the collection is outside the *)
(* service; a stored track follows the data model: an ObjectId, a title    *)
(* and an artist (strings; list_artists provides for an empty artist),     *)
(* optional music_id, album, date_added and music_file, genres absent, a   *)
(* list or (legacy records) one scalar, and the lower-cased shadow of      *)
(* title, artist, album and genres.                                        *)

MaxTracks == 2

LowerOf(v) ==
  CASE v.t = "str" -> Str(Lower(v.s))
    [] v.t = "list" -> List([i \in 1..Len(v.l) |-> Lower(v.l[i])])
    [] OTHER -> v

Track(oid, music_id, title, artist, album, genres, date_added, music_file) ==
  [k \in Fields |->
     CASE k = "_id" -> ObjectId(oid)
       [] k = "music_id" -> music_id
       [] k = "title" -> title
       [] k = "artist" -> artist
       [] k = "album" -> album
       [] k = "genres" -> genres
       [] k = "audio_features" -> Dict(<<>>)
       [] k = "sources" -> Dict(<<>>)
       [] k = "date_added" -> date_added
       [] k = "music_file" -> music_file
       [] k = "title_lower" -> LowerOf(title)
       [] k = "artist_lower" -> LowerOf(artist)
       [] k = "album_lower" -> LowerOf(album)
       [] k = "genres_lower" -> LowerOf(genres)
       [] OTHER -> Missing]

Day == Datetime(<<"2", "0", "2", "4">>, <<"0", "1">>, <<"0", "2">>)

Catalogue ==
  { Track(<<"1">>, Str(<<"m", "1">>), Str(<<"A", "b">>), Str(<<"a", "b">>),
          Str(<<"B">>), List(<< <<"b">>, <<"A">> >>), Day, Str(<<"p", "1">>)),
    Track(<<"2">>, Str(<<"m", "2">>), Str(<<"a", "$", "b">>), Str(<<"b", ".">>),
          Missing, Str(<<"b">>), Missing, Missing),
    Track(<<"3">>, Str(<<"m", "3">>), Str(<<"B", "a">>), Str(<<"a">>),
          Str(<<"a", ".", "b">>), Missing, Missing, Str(<<"p", "3">>)),
    Track(<<"4">>, Missing, Str(<<"a", ".", "b">>), Str(<<"A", "b">>),
          Missing, List(<< <<"a">> >>), Day, Missing),
    Track(<<"5">>, Str(<<"m", "4">>), Str(<<"b">>), Str(<<"a", "b">>),
          Str(<<"A">>), List(<< <<"A">>, <<"b">> >>), Missing, Str(<<"p", "4">>)),
    Track(<<"6">>, Str(<<"m", "5">>), Str(<<"$">>), Str(<<"B">>),
          Missing, Str(<<"A">>), Day, Missing),
    Track(<<"7">>, Str(<<"m", "6">>), Str(<<"a">>), Str(<<>>),
          Missing, List(<<>>), Missing, Missing) }

\* the collections of at most MaxTracks distinct tracks, in any order
Stores ==
  UNION {{q \in [1..n -> Catalogue] : \A i, j \in 1..n : i # j => q[i] # q[j]}
         : n \in 0..MaxTracks}

-----------------------------------------------------------------------------
(* Request parameters *)

QueryInputs ==
  {None, Str(<<>>), Str(<<"a">>), Str(<<"B">>), Str(<<".">>), Str(<<"a", "$">>),
   Str(<<"A", "B">>)}

ArtistInputs ==
  {None, Str(<<>>), Str(<<"A">>), Str(<<".">>), Str(<<"b", ".">>)}

GenreInputs == {None, Str(<<"a">>), Str(<<"B">>)}

\* limit absent from the query string, or one of these integers
LimitInputs ==
  {[given |-> FALSE, v |-> 0]}
  \cup {[given |-> TRUE, v |-> n] : n \in {-1, 0, 1, 2, MaxLimit, MaxLimit + 1}}

IdInputs == {<<"m", "1">>, <<"m", "2">>, <<"m", "3">>, <<"m", "4">>, <<"m", "9">>}

Request(op, query, artist, genre, lim, music_id) ==
  [op |-> op, query |-> query, artist |-> artist, genre |-> genre,
   limit |-> lim, music_id |-> music_id]

NoLimit == [given |-> FALSE, v |-> 0]

NoReq == Request("idle", None, None, None, NoLimit, <<>>)

NoResp == Resp(0, <<>>, <<>>, NoCounts, "")

\* Query(50, le=500): the default stands in for an absent limit
EffectiveLimit(lim) == IF lim.given THEN lim.v ELSE DefaultLimit

EmptyDoc == [k \in Fields |-> Missing]

Pending == [t |-> "pending"]

-----------------------------------------------------------------------------
(* The service: one action per route.  A request is taken when the service *)
(* is idle, the handler runs to its response, and Reply hands the response *)
(* to the client and returns to idle.                                      *)

Init ==
  /\ store \in Stores
  /\ req = NoReq
  /\ resp = NoResp
  /\ doc = EmptyDoc
  /\ shaped = Pending

Root ==
  /\ req.op = "idle"
  /\ req' = Request("root", None, None, None, NoLimit, <<>>)
  /\ resp' = root
  /\ UNCHANGED <<store, doc, shaped>>

ListTracks ==
  /\ req.op = "idle"
  /\ \E query \in QueryInputs, artist \in ArtistInputs, genre \in GenreInputs,
        lim \in LimitInputs :
       /\ req' = Request("list_tracks", query, artist, genre, lim, <<>>)
       /\ resp' = list_tracks(store, query, artist, genre, EffectiveLimit(lim))
  /\ UNCHANGED <<store, doc, shaped>>

\* a lookup that removes what it finds (find_one_and_delete)
GetTrackAndDelete ==
  /\ req.op = "idle"
  /\ \E music_id \in IdInputs :
       /\ req' = Request("get_track", None, None, None, NoLimit, music_id)
       /\ resp' = get_track_by_music_id(store, music_id)
       /\ store' = SelectSeq(store, LAMBDA d : d["music_id"] # Str(music_id))
  /\ UNCHANGED <<doc, shaped>>

GetTrack ==
  /\ req.op = "idle"
  /\ \E music_id \in IdInputs :
       /\ req' = Request("get_track", None, None, None, NoLimit, music_id)
       /\ resp' = get_track_by_music_id(store, music_id)
  /\ UNCHANGED <<store, doc, shaped>>

StreamFile ==
  /\ req.op = "idle"
  /\ \E music_id \in IdInputs, on_disk \in BOOLEAN :
       /\ req' = Request("stream_file", None, None, None, NoLimit, music_id)
       /\ resp' = stream_track_file(store, music_id, on_disk)
  /\ UNCHANGED <<store, doc, shaped>>

ListArtists ==
  /\ req.op = "idle"
  /\ req' = Request("list_artists", None, None, None, NoLimit, <<>>)
  /\ resp' = list_artists(store)
  /\ UNCHANGED <<store, doc, shaped>>

ListGenres ==
  /\ req.op = "idle"
  /\ req' = Request("list_genres", None, None, None, NoLimit, <<>>)
  /\ resp' = list_genres(store)
  /\ UNCHANGED <<store, doc, shaped>>

Stats ==
  /\ req.op = "idle"
  /\ req' = Request("stats", None, None, None, NoLimit, <<>>)
  /\ resp' = stats(store)
  /\ UNCHANGED <<store, doc, shaped>>

Reply ==
  /\ req.op # "idle"
  /\ req' = NoReq
  /\ resp' = NoResp
  /\ UNCHANGED <<store, doc, shaped>>

Next ==
  \/ Root
  \/ ListTracks
  \/ GetTrack
  \/ StreamFile
  \/ ListArtists
  \/ ListGenres
  \/ Stats
  \/ Reply

Spec == Init /\ [][Next]_vars

-----------------------------------------------------------------------------
(* The Response Shaper alone: serialize_track applied to one document,     *)
(* drawn from documents that carry or lack each group of keys and hold     *)
(* genres, audio_features, sources and date_added in each stored form.     *)

GenresForms ==
  {Missing, None, List(<<>>), List(<< <<"a">>, <<"B">> >>), Str(<<"b">>)}

MappingForms == {Missing, None, Dict(<<"a">>)}

DateForms == {Missing, None, Day, Str(<<"2", "0", "2", "4">>)}

InputDoc(genres, audio_features, sources, date_added, core, oid, shadows, file) ==
  [k \in Fields |->
     CASE k = "genres" -> genres
       [] k = "audio_features" -> audio_features
       [] k = "sources" -> sources
       [] k = "date_added" -> date_added
       [] k \in {"music_id", "title", "artist"} ->
            IF core THEN Str(<<"A", "b">>) ELSE Missing
       [] k = "_id" -> IF oid THEN ObjectId(<<"1">>) ELSE Missing
       [] k \in ShadowKeys -> IF shadows THEN Str(<<"a", "b">>) ELSE Missing
       [] k = "music_file" -> IF file THEN Str(<<"p", "1">>) ELSE Missing
       [] OTHER -> Missing]

ShapeInputs ==
  {InputDoc(g, a, s, d, core, oid, shadows, file) :
     g \in GenresForms, a \in MappingForms, s \in MappingForms, d \in DateForms,
     core \in BOOLEAN, oid \in BOOLEAN, shadows \in BOOLEAN, file \in BOOLEAN}

InitShape ==
  /\ store = <<>>
  /\ req = NoReq
  /\ resp = NoResp
  /\ doc \in ShapeInputs
  /\ shaped = Pending

Shape ==
  /\ shaped = Pending
  /\ shaped' = serialize_track(doc)
  /\ UNCHANGED <<store, req, resp, doc>>

NextShape == Shape

SpecShape == InitShape /\ [][NextShape]_vars

-----------------------------------------------------------------------------
(* Properties *)

\* the shaped representation of a stored track
Shaped(d) == TrackResponse(PublicFields(d))

\* the response body holds the shaped representation of d
Includes(d) == \E j \in 1..Len(resp.tracks) : resp.tracks[j] = Shaped(d)

\* GET /tracks, answered, with the named filter given and the others absent
\* (a request that fails as a whole returns no list to speak of)
OnlyQuery ==
  /\ req.op = "list_tracks"
  /\ resp.status = 200
  /\ req.query.t = "str"
  /\ req.artist.t = "null"
  /\ req.genre.t = "null"
  /\ ~req.limit.given

OnlyArtist ==
  /\ req.op = "list_tracks"
  /\ resp.status = 200
  /\ req.query.t = "null"
  /\ req.artist.t = "str"
  /\ req.genre.t = "null"
  /\ ~req.limit.given

\* C1: every stored track whose title contains S, compared case-insensitively,
\* is in the response of GET /tracks?query=S (no other filter, default limit).
C1_TitleMatchIncluded ==
  OnlyQuery =>
    \A i \in 1..Len(store) :
      Contains(Lower(store[i]["title"].s), Lower(req.query.s))
        => Includes(store[i])

\* C2: the response of GET /tracks?artist=A (no other filter) includes a
\* stored track exactly when its lower-cased artist contains lower-cased A.
C2_ArtistIffIncluded ==
  OnlyArtist =>
    \A i \in 1..Len(store) :
      Includes(store[i])
        <=> Contains(Lower(store[i]["artist"].s), Lower(req.artist.s))

\* the three filters of the claim, on a returned track r
QueryHolds(r, q) ==
  \/ Contains(Lower(r["title"].s), Lower(q))
  \/ Contains(Lower(r["artist"].s), Lower(q))
  \/ r["album"].t = "str" /\ Contains(Lower(r["album"].s), Lower(q))

ArtistHolds(r, a) == Contains(Lower(r["artist"].s), Lower(a))

GenreHolds(r, g) ==
  \E i \in 1..Len(r["genres"].l) : Contains(Lower(r["genres"].l[i]), Lower(g))

\* C3: every track GET /tracks returns satisfies all the filters that are
\* present, as substring tests on lower-cased text; with no filter present
\* the predicate matches every stored track.
C3_FiltersConjoined ==
  req.op = "list_tracks" =>
    /\ \A j \in 1..Len(resp.tracks) :
         /\ req.query.t = "str" => QueryHolds(resp.tracks[j], req.query.s)
         /\ req.artist.t = "str" => ArtistHolds(resp.tracks[j], req.artist.s)
         /\ req.genre.t = "str" => GenreHolds(resp.tracks[j], req.genre.s)
    /\ (req.query.t = "null" /\ req.artist.t = "null" /\ req.genre.t = "null")
         => \A i \in 1..Len(store) :
              Matches(store[i], build_search_query(req.query, req.artist, req.genre))

\* C4: a limit above 500 is rejected and no track returned (501 rejected,
\* 500 accepted); an accepted limit L bounds the length of the response by L
\* (stated for L >= 0: no length is at most a negative L).
C4_LimitBoundsResponse ==
  (req.op = "list_tracks" /\ req.limit.given) =>
    /\ req.limit.v > 500 => (resp.status = 422 /\ resp.tracks = <<>>)
    /\ req.limit.v <= 500 => resp.status # 422
    /\ (resp.status # 422 /\ req.limit.v >= 0)
         => Len(resp.tracks) <= req.limit.v

\* C5: GET /tracks/{id} answers 404 with a detail message and no track when
\* no stored track has that music_id, and otherwise with the shaped
\* representation of a stored track that has it.
C5_LookupOr404 ==
  req.op = "get_track" =>
    IF \A i \in 1..Len(store) : store[i]["music_id"] # Str(req.music_id)
    THEN resp.status = 404 /\ resp.tracks = <<>> /\ resp.detail = "Track not found"
    ELSE /\ resp.status = 200
         /\ \E i \in 1..Len(store) :
              /\ store[i]["music_id"] = Str(req.music_id)
              /\ resp.tracks = <<Shaped(store[i])>>

\* the genre values that occur in a stored track, scalar or list element
StoredGenres ==
  {g \in UNION {CASE store[i]["genres"].t = "str" -> {store[i]["genres"].s}
                  [] store[i]["genres"].t = "list" ->
                       {store[i]["genres"].l[j] : j \in 1..Len(store[i]["genres"].l)}
                  [] OTHER -> {}
                : i \in 1..Len(store)} : TRUE}

\* C6: GET /genres returns a list sorted ascending, without duplicates, that
\* holds exactly the genre values occurring in some stored track, whether a
\* track stores its genres as one scalar or as a list.
C6_GenresSortedDistinct ==
  req.op = "list_genres" =>
    /\ resp.status = 200
    /\ \A i \in 1..(Len(resp.names) - 1) : StrLess(resp.names[i], resp.names[i + 1])
    /\ {resp.names[i] : i \in 1..Len(resp.names)} = StoredGenres

C6_Witness ==
  /\ req.op = "list_genres"
  /\ Len(resp.names) >= 2
  /\ \E i \in 1..Len(store) : store[i]["genres"].t = "str"
  /\ \E i \in 1..Len(store) :
       /\ store[i]["genres"].t = "list"
       /\ \E j \in 1..Len(store[i]["genres"].l), k \in 1..Len(store) :
            k # i /\ store[k]["genres"] = Str(store[i]["genres"].l[j])

\* C7: for a non-empty document, whatever extra keys it carries, the keys of
\* serialize_track's output are exactly the ten public ones.
C7_OnlyPublicKeys ==
  (shaped # Pending /\ ~IsEmptyDoc(doc)) =>
    /\ shaped.t = "obj"
    /\ DOMAIN shaped.f =
         {"music_id", "title", "artist", "album", "genres", "release_date",
          "audio_features", "sources", "date_added", "notes"}

C7_Witness ==
  /\ shaped.t = "obj"
  /\ \A k \in ShadowKeys \cup {"_id", "music_file"} : doc[k].t # "missing"

\* C8: whenever genres, audio_features and sources are each missing, null or
\* of their own type in the document, the output's genres is a sequence and
\* its audio_features and sources are mappings, never null.
C8_DefaultsNeverNull ==
  (/\ shaped.t = "obj"
   /\ doc["genres"].t \in {"missing", "null", "list"}
   /\ doc["audio_features"].t \in {"missing", "null", "dict"}
   /\ doc["sources"].t \in {"missing", "null", "dict"})
  => /\ shaped.f["genres"].t = "list"
     /\ shaped.f["audio_features"].t = "dict"
     /\ shaped.f["sources"].t = "dict"

\* the responses a request can get on a collection: a function of the
\* request's parameters and the collection (and, for a file, of the disk)
Answers(coll, r) ==
  CASE r.op = "root" -> {root}
    [] r.op = "list_tracks" ->
         {list_tracks(coll, r.query, r.artist, r.genre, EffectiveLimit(r.limit))}
    [] r.op = "get_track" -> {get_track_by_music_id(coll, r.music_id)}
    [] r.op = "stream_file" ->
         {stream_track_file(coll, r.music_id, on_disk) : on_disk \in BOOLEAN}
    [] r.op = "list_artists" -> {list_artists(coll)}
    [] r.op = "list_genres" -> {list_genres(coll)}
    [] r.op = "stats" -> {stats(coll)}
    [] OTHER -> {}

C10_StatsAgree ==
  req.op = "stats" =>
    /\ resp.counts.total_tracks = Len(store)
    /\ resp.counts.total_artists = Len(list_artists(store).names)
    /\ resp.counts.total_genres = Len(list_genres(store).names)

====
